---------------------------- MODULE Spec2Model ----------------------------
(***************************************************************************)
(* Caching and throttling layer of the Bloo command handlers.              *)
(*                                                                         *)
(*  - the fetch functions of utils/autocompleters.py and                   *)
(*    cogs/commands/misc/ioscfw.py, each wrapped by aiocache's             *)
(*    @cached(ttl=...) decorator (an in-memory cache whose entries are     *)
(*    deleted by a timer ttl seconds after they are set);                  *)
(*  - the cooldown checks of the meme and neural_net commands of           *)
(*    cogs/commands/misc/memes.py (CooldownMapping.from_cooldown).         *)
(*                                                                         *)
(* SpecCache is the state machine of the cached fetch functions, SpecMeme  *)
(* the one of the meme command's cooldown and SpecRes the one of the       *)
(* neural_net command's cooldown.                                          *)
(* SpecHandlers is the one of the two commands' handlers as tasks of the   *)
(* event loop, SpecConsumers the one of the autocompleters and commands    *)
(* that consume the cached values, and SpecMemes the one of the meme name  *)
(* autocompleter over the guild's stored memes.                            *)
(***************************************************************************)
EXTENDS Integers, FiniteSets, Sequences, TLC

(***************************************************************************)
(* Program constants.                                                      *)
(***************************************************************************)
TtlDevices == 3600

TtlIosCfw == 3600

TtlJailbreaksJba == 3600

TtlSignedStatus == 1800

\* CooldownMapping.from_cooldown(1, 5, ...) of the meme command.
MemeRate == 1

MemePer == 5

\* CooldownMapping.from_cooldown(1, 15, ...) of the neural_net command.
ResRate == 1

ResPer == 15

(***************************************************************************)
(* Bounds of the model.                                                    *)
(***************************************************************************)
NumTasks == 2

MaxTicks == 2

NumPayloads == 1

MaxCalls == 3

MaxTimeMeme == 7

MaxTimeRes == 16

NumInvokers == 2

MaxInvocations == 2

MaxTimeRace == 6

(***************************************************************************)
(* The cached fetch functions, the tasks (command and autocomplete         *)
(* invocations) that call them, and the values they handle.                *)
(***************************************************************************)
Funcs == {"get_devices", "get_ios_cfw", "get_jailbreaks_jba", "get_signed_status"}

Tasks == 1 .. NumTasks

\* Payloads an endpoint can answer with on HTTP 200.
Payloads == 1 .. NumPayloads

\* The empty list a fetch function starts from (res_devices = [], res_apps = [],
\* signed = []) and returns when the response status is not 200.
Empty == 0

\* What a call gives its caller: a value, or an exception.
Val(v) == [err |-> FALSE, value |-> v]

Err == [err |-> TRUE]

NoEntry == [present |-> FALSE]

\* ttl argument of each function's @cached decorator.
Ttl(f) ==
    CASE f = "get_devices" -> TtlDevices
      [] f = "get_ios_cfw" -> TtlIosCfw
      [] f = "get_jailbreaks_jba" -> TtlJailbreaksJba
      [] f = "get_signed_status" -> TtlSignedStatus

\* CacheKey with the function name left out of the key.
CacheKey_module(f) ==
    IF f \in {"get_devices", "get_ios_cfw"}
    THEN "utils.autocompleters"
    ELSE "cogs.commands.misc.ioscfw"

\* The decorator's cache key: module name + function name (no arguments).
CacheKey(f) ==
    CASE f = "get_devices" -> "utils.autocompleters" \o "get_devices"
      [] f = "get_ios_cfw" -> "utils.autocompleters" \o "get_ios_cfw"
      [] f = "get_jailbreaks_jba" -> "cogs.commands.misc.ioscfw" \o "get_jailbreaks_jba"
      [] f = "get_signed_status" -> "cogs.commands.misc.ioscfw" \o "get_signed_status"

Keys == {CacheKey(f) : f \in Funcs}

\* Granularity of the clock: the smallest ttl, so that calls fall inside,
\* exactly at the end of, and after a freshness interval.
Step == TtlSignedStatus

VARIABLES
    now,        \* the clock, in seconds
    cache,      \* the decorator's memory cache: key -> entry or NoEntry
    pc,         \* task -> "idle" | "fetching" (suspended in its own request)
    fn,         \* task -> the function whose request it is suspended in
    seen,       \* task -> the history of the key (see stale) when the task called
    last,       \* the call that returned last: of which function, how, with which result
    ncalls,     \* number of calls made so far
    nended,     \* number of requests that have ended so far
    stale,      \* key -> "clean", or since its entry expired: "expired", then "failed" once a refresh failed
    meme_cooldown,  \* Memes.meme_cooldown: meme name -> its bucket or NoBucket
    res_cooldown,   \* Memes.res_cooldown: guild name -> its bucket or NoBucket
    permitAt,       \* bucket key -> when Meme or NeuralNet last had its limiter let a call through (Never if not within a period)
    granted,        \* bucket key -> the times at which Meme or NeuralNet had its limiter let a call through, from the start of the window of the key's bucket on
    unswept,        \* meme name -> its bucket in a mapping that gets Meme's calls and never removes a bucket
    out,            \* the command invocation handled last and its outcome
    running,        \* the handler task the event loop is running (0: none, the loop is free)
    hpc,            \* handler task -> "idle" | "pending" | "got_bucket" | "awaiting"
    harg,           \* handler task -> the invocation it handles
    ninvoked,       \* number of invocations dispatched so far
    memes,          \* the names of the guild's memes in the database, in the order stored
    produced,       \* cache key -> the value its function returned at the last refresh
    reply           \* the autocomplete or command call that returned last, and what it gave

cacheVars == <<cache, pc, fn, seen, last, ncalls, nended, stale>>

cooldownVars == <<meme_cooldown, res_cooldown, permitAt, granted, unswept, out>>

handlerVars == <<running, hpc, harg, ninvoked>>

consumerVars == <<memes, produced, reply>>

vars == <<now, cacheVars, cooldownVars, handlerVars, consumerVars>>

(***************************************************************************)
(* The decorator, as each function is wrapped by it:                       *)
(*     value = cache.get(key); if value is not None: return value          *)
(*     result = await f(); cache.set(key, result, ttl); return result      *)
(***************************************************************************)
\* CacheHit that tests the stored value for truth (`if value:`) instead of
\* `is not None`: a stored empty list counts as a miss.
CacheHit_truthy(c, f) == c[CacheKey(f)].present /\ c[CacheKey(f)].value # Empty

\* cache.get(key) finds a value: one is stored until the timer deletes it.
CacheHit(c, f) == c[CacheKey(f)].present

\* cache.set(key, value, ttl) at time t: replaces the entry and its timer.
CacheSet(c, f, v, t) ==
    [c EXCEPT ![CacheKey(f)] = [present |-> TRUE, value |-> v, expiresAt |-> t + Ttl(f)]]

\* Evict with timers that fire only after their time has passed.
Evict_late(c, t) ==
    [k \in Keys |-> IF c[k].present /\ c[k].expiresAt < t THEN NoEntry ELSE c[k]]

\* The timers that are due at time t delete their entries.
Evict(c, t) ==
    [k \in Keys |-> IF c[k].present /\ c[k].expiresAt <= t THEN NoEntry ELSE c[k]]

\* What a function does when the response status is not 200: get_ios_cfw
\* leaves `data` unbound, so its `return data` raises; the others return the
\* empty list they started from.
Non200Raises(f) == f = "get_ios_cfw"

\* The record of a call that has returned to its caller.
Returned(f, h, r, s) == [fn |-> f, how |-> h, result |-> r, seen |-> s]

\* The history of a key after one of its refreshes failed.
AfterFailure(s, f) ==
    [s EXCEPT ![CacheKey(f)] = IF @ = "expired" THEN "failed" ELSE @]

\* The history of a key after a value was stored for it.
AfterStore(s, f) == [s EXCEPT ![CacheKey(f)] = "clean"]

\* The history of the keys once the entries whose ttl has elapsed at time t
\* have expired.
AfterExpiry(s, c, t) ==
    [k \in Keys |-> IF c[k].present /\ c[k].expiresAt <= t THEN "expired" ELSE s[k]]

InitCache ==
    /\ now = 0
    /\ cache = [k \in Keys |-> NoEntry]
    /\ pc = [t \in Tasks |-> "idle"]
    /\ fn = [t \in Tasks |-> "get_devices"]
    /\ seen = [t \in Tasks |-> "clean"]
    /\ last = Returned("get_devices", "none", Val(Empty), "clean")
    /\ ncalls = 0
    /\ nended = 0
    /\ stale = [k \in Keys |-> "clean"]

\* A task calls the cached function f: a hit returns the stored value at
\* once, a miss starts the function's own request (the task suspends).
Call(t, f) ==
    /\ pc[t] = "idle"
    /\ ncalls < MaxCalls
    /\ ncalls' = ncalls + 1
    /\ IF CacheHit(cache, f)
       THEN /\ last' = Returned(f, "hit", Val(cache[CacheKey(f)].value), stale[CacheKey(f)])
            /\ UNCHANGED <<pc, fn, seen>>
       ELSE /\ pc' = [pc EXCEPT ![t] = "fetching"]
            /\ fn' = [fn EXCEPT ![t] = f]
            /\ seen' = [seen EXCEPT ![t] = stale[CacheKey(f)]]
            /\ UNCHANGED last
    /\ UNCHANGED <<now, cache, nended, stale>>

\* Leave for a caller that is never resumed.
Leave_stuck(t) == UNCHANGED <<pc, fn, seen>>

\* The request of task t is over: the task leaves the function.
Leave(t) ==
    /\ pc' = [pc EXCEPT ![t] = "idle"]
    /\ fn' = [fn EXCEPT ![t] = "get_devices"]
    /\ seen' = [seen EXCEPT ![t] = "clean"]

\* The request of task t answers 200 with payload v: the function returns
\* it, the decorator stores it and the caller receives it.
ProducerOk(t, v) ==
    /\ pc[t] = "fetching"
    /\ nended' = nended + 1
    /\ cache' = CacheSet(cache, fn[t], v, now)
    /\ last' = Returned(fn[t], "ok", Val(v), seen[t])
    /\ stale' = AfterStore(stale, fn[t])
    /\ Leave(t)
    /\ UNCHANGED <<now, ncalls>>

\* The request of task t answers with a status other than 200.
ProducerNon200(t) ==
    /\ pc[t] = "fetching"
    /\ nended' = nended + 1
    /\ IF Non200Raises(fn[t])
       THEN /\ last' = Returned(fn[t], "non200", Err, seen[t])
            /\ stale' = AfterFailure(stale, fn[t])
            /\ UNCHANGED cache
       ELSE /\ last' = Returned(fn[t], "non200", Val(Empty), seen[t])
            /\ cache' = CacheSet(cache, fn[t], Empty, now)
            /\ stale' = AfterStore(stale, fn[t])
    /\ Leave(t)
    /\ UNCHANGED <<now, ncalls>>

\* ProducerRaise with the failure stored as an empty result.
ProducerRaise_cached(t) ==
    /\ pc[t] = "fetching"
    /\ nended' = nended + 1
    /\ last' = Returned(fn[t], "raised", Err, seen[t])
    /\ cache' = CacheSet(cache, fn[t], Empty, now)
    /\ stale' = AfterFailure(stale, fn[t])
    /\ Leave(t)
    /\ UNCHANGED <<now, ncalls>>

\* The request of task t raises: network error, timeout, cancellation or a
\* payload that does not parse. The exception passes through the decorator
\* to the caller; nothing is stored.
ProducerRaise(t) ==
    /\ pc[t] = "fetching"
    /\ nended' = nended + 1
    /\ last' = Returned(fn[t], "raised", Err, seen[t])
    /\ stale' = AfterFailure(stale, fn[t])
    /\ Leave(t)
    /\ UNCHANGED <<now, cache, ncalls>>

\* Time passes; the timers that become due delete their entries.
TickCache ==
    /\ now + Step <= MaxTicks * Step
    /\ now' = now + Step
    /\ cache' = Evict(cache, now')
    /\ stale' = AfterExpiry(stale, cache, now')
    /\ UNCHANGED <<pc, fn, seen, last, ncalls, nended>>

(***************************************************************************)
(* The cooldowns of cogs/commands/misc/memes.py. A CooldownMapping keeps   *)
(* one Cooldown (rate tokens per `per` seconds) per key:                   *)
(*   get_bucket(key): drops the buckets not used for more than `per`       *)
(*     seconds, then returns the key's bucket, creating it when missing;   *)
(*   bucket.update_rate_limit(current): refills the tokens when            *)
(*     current > window + per, starts a window when all tokens are there,  *)
(*     returns the time to wait when no token is left, and otherwise       *)
(*     takes a token and returns None.                                     *)
(***************************************************************************)
\* Meme names a caller can type; guild_service.get_meme finds only the
\* existing ones.
MemeNames == {"doge", "pepe", "nomeme"}

ExistingMemes == {"doge", "pepe"}

\* GetMeme that finds a meme under every name.
GetMeme_any(name) == TRUE

\* guild_service.get_meme(name) finds a meme (does not return None).
GetMeme(name) == name \in ExistingMemes

\* ctx.guild.name: the bot serves one guild (cfg.guild_id).
Guilds == {"guild"}

BucketKeys == MemeNames \cup Guilds

Never == 0 - 1

NoBucket == [present |-> FALSE]

\* NewBucket that takes the parameters of the neural_net mapping whatever
\* the mapping.
NewBucket_res(rate, per) ==
    [present |-> TRUE, rate |-> ResRate, per |-> ResPer, window |-> 0, tokens |-> ResRate,
     last |-> 0]

\* Cooldown(rate, per) as the mapping copies it for a new key: the bucket
\* carries its own rate and per.
NewBucket(rate, per) ==
    [present |-> TRUE, rate |-> rate, per |-> per, window |-> 0, tokens |-> rate, last |-> 0]

\* What update_rate_limit returns: None, or the seconds left to wait.
None == [none |-> TRUE]

RetryAfter(x) == [none |-> FALSE, value |-> x]

\* Python truth of that return value, as the handlers test it.
Truthy(r) == ~r.none /\ r.value # 0

\* VerifyCacheIntegrity that drops every bucket not used at this very time.
VerifyCacheIntegrity_eager(m, t) ==
    [k \in DOMAIN m |-> IF m[k].present /\ t > m[k].last THEN NoBucket ELSE m[k]]

\* CooldownMapping._verify_cache_integrity at time t.
VerifyCacheIntegrity(m, t) ==
    [k \in DOMAIN m |->
        IF m[k].present /\ t > m[k].last + m[k].per THEN NoBucket ELSE m[k]]

\* CooldownMapping.get_bucket(key) at time t, of a mapping made by
\* from_cooldown(rate, per, ...): the mapping afterwards.
GetBucket(m, key, rate, per, t) ==
    LET kept == VerifyCacheIntegrity(m, t) IN
    IF kept[key].present THEN kept ELSE [kept EXCEPT ![key] = NewBucket(rate, per)]

\* get_bucket(key) of a mapping that never removes a bucket: the mapping
\* afterwards.
Unswept(m, key, rate, per) ==
    IF m[key].present THEN m ELSE [m EXCEPT ![key] = NewBucket(rate, per)]

\* GetTokens that finds the bucket full at every call.
GetTokens_full(b, t) == b.rate

\* GetTokens that never refills an emptied bucket.
GetTokens_norefill(b, t) == b.tokens

\* Cooldown.get_tokens(current).
GetTokens(b, t) == IF t > b.window + b.per THEN b.rate ELSE b.tokens

\* UpdateRateLimit that restarts the window at every call.
UpdateRateLimit_restart(b, t) ==
    LET tokens == GetTokens(b, t) IN
    IF tokens = 0
    THEN [bucket |-> [b EXCEPT !.window = t, !.tokens = 0, !.last = t],
          retry |-> RetryAfter(b.per)]
    ELSE [bucket |-> [b EXCEPT !.window = t, !.tokens = tokens - 1, !.last = t],
          retry |-> None]

\* Cooldown.update_rate_limit(current): the bucket afterwards and the
\* value returned.
UpdateRateLimit(b, t) ==
    LET tokens == GetTokens(b, t)
        window == IF tokens = b.rate THEN t ELSE b.window
    IN  IF tokens = 0
        THEN [bucket |-> [b EXCEPT !.window = window, !.tokens = 0, !.last = t],
              retry |-> RetryAfter(b.per - (t - window))]
        ELSE [bucket |-> [b EXCEPT !.window = window, !.tokens = tokens - 1, !.last = t],
              retry |-> None]

\* The record of a handled invocation: the command, its cooldown key,
\* whether the invoker is a moderator, the bucket it got ("none", "new",
\* "refilled" when the tokens of an existing bucket were refilled, "kept"),
\* what the limiter said ("unchecked" when it was not consulted, "passed" or
\* "limited") and how the handler went on.
Handled(cmd, key, mod, bucket, limiter, outcome) ==
    [cmd |-> cmd, key |-> key, mod |-> mod, bucket |-> bucket,
     limiter |-> limiter, outcome |-> outcome]

\* The bucket a handler got from mapping m for key at time t.
Got(m, key, per, t) ==
    IF ~VerifyCacheIntegrity(m, t)[key].present THEN "new"
    ELSE IF t > m[key].window + per THEN "refilled"
    ELSE "kept"

\* The passes that still count at time t: those less than a period old.
Recent(p, t) ==
    [k \in BucketKeys |->
        IF p[k] # Never /\ t - p[k] >= (IF k \in Guilds THEN ResPer ELSE MemePer)
        THEN Never ELSE p[k]]

Verdict(r) == IF Truthy(r) THEN "limited" ELSE "passed"

\* Refused that ignores the invoker's privilege.
Refused_all(r, mod) == Truthy(r)

\* The condition of Memes.meme's raise of "That meme is on cooldown.":
\* update_rate_limit's value (r) is truthy and the invoker is no moderator
\* or sub-mod.
Refused(r, mod) == Truthy(r) /\ ~mod

\* How many times t occurs in the sequence of times s.
Times(s, t) == Len(SelectSeq(s, LAMBDA x : x = t))

\* The record g of the calls let through, after a call on key at time t
\* that left its mapping as m: the call is added if the limiter let it
\* through (passed), and of each key of the mapping the times from the
\* start of its bucket's window on are kept, none for a key without a
\* bucket. (More than rate + 1 calls let through at one time are recorded
\* as rate + 1.)
Granted(g, m, key, passed, t) ==
    [k \in BucketKeys |->
        IF k \notin DOMAIN m THEN g[k]
        ELSE IF ~m[k].present THEN <<>>
        ELSE LET s == IF k = key /\ passed /\ Times(g[k], t) <= m[k].rate
                      THEN Append(g[k], t) ELSE g[k]
             IN  SelectSeq(s, LAMBDA x : x >= m[k].window)]

InitCooldown ==
    /\ meme_cooldown = [k \in MemeNames |-> NoBucket]
    /\ res_cooldown = [k \in Guilds |-> NoBucket]
    /\ permitAt = [k \in BucketKeys |-> Never]
    /\ granted = [k \in BucketKeys |-> <<>>]
    /\ unswept = [k \in MemeNames |-> NoBucket]
    /\ out = Handled("none", "guild", FALSE, "none", "unchecked", "none")

\* Memes.meme up to its response: an unknown meme is refused; otherwise the
\* bucket of the meme's name is fetched and updated, and the invocation is
\* refused when the limiter says so and the invoker is no moderator.
Meme(name, mod) ==
    IF ~GetMeme(name)
    THEN /\ out' = Handled("meme", name, mod, "none", "unchecked", "no such meme")
         /\ UNCHANGED <<now, meme_cooldown, res_cooldown, permitAt, granted, unswept>>
    ELSE LET m == GetBucket(meme_cooldown, name, MemeRate, MemePer, now)
             u == UpdateRateLimit(m[name], now)
         IN  /\ meme_cooldown' = [m EXCEPT ![name] = u.bucket]
             /\ permitAt' = IF Truthy(u.retry) THEN permitAt
                            ELSE [permitAt EXCEPT ![name] = now]
             /\ granted' = Granted(granted, meme_cooldown', name, ~Truthy(u.retry), now)
             /\ unswept' = [unswept EXCEPT ![name] =
                                UpdateRateLimit(Unswept(unswept, name, MemeRate, MemePer)[name],
                                                now).bucket]
             /\ out' = Handled("meme", name, mod, Got(meme_cooldown, name, MemePer, now),
                               Verdict(u.retry),
                               IF Refused(u.retry, mod) THEN "on cooldown" ELSE "shown")
             /\ UNCHANGED <<now, res_cooldown>>

\* Memes.neural_net up to ctx.defer: refused without a ResNext token, and
\* outside the general and botspam channels unless the invoker is a
\* moderator; the guild's bucket is fetched and updated only for invokers
\* who are not moderators.
NeuralNet(guild, mod, inChannel, token) ==
    IF ~token
    THEN /\ out' = Handled("neural_net", guild, mod, "none", "unchecked", "no token")
         /\ UNCHANGED <<now, meme_cooldown, res_cooldown, permitAt, granted, unswept>>
    ELSE IF ~inChannel /\ ~mod
    THEN /\ out' = Handled("neural_net", guild, mod, "none", "unchecked", "wrong channel")
         /\ UNCHANGED <<now, meme_cooldown, res_cooldown, permitAt, granted, unswept>>
    ELSE IF mod
    THEN /\ out' = Handled("neural_net", guild, mod, "none", "unchecked", "deferred")
         /\ UNCHANGED <<now, meme_cooldown, res_cooldown, permitAt, granted, unswept>>
    ELSE LET m == GetBucket(res_cooldown, guild, ResRate, ResPer, now)
             u == UpdateRateLimit(m[guild], now)
         IN  /\ res_cooldown' = [m EXCEPT ![guild] = u.bucket]
             /\ permitAt' = IF Truthy(u.retry) THEN permitAt
                            ELSE [permitAt EXCEPT ![guild] = now]
             /\ granted' = Granted(granted, res_cooldown', guild, ~Truthy(u.retry), now)
             /\ out' = Handled("neural_net", guild, mod, Got(res_cooldown, guild, ResPer, now),
                               Verdict(u.retry),
                               IF Truthy(u.retry) THEN "on cooldown" ELSE "deferred")
             /\ UNCHANGED <<now, meme_cooldown, unswept>>

\* A second passes (datetime.now() of the handlers).
Tick(max) ==
    /\ now < max
    /\ now' = now + 1
    /\ permitAt' = Recent(permitAt, now')
    /\ UNCHANGED <<meme_cooldown, res_cooldown, granted, unswept, out>>

TickMeme == Tick(MaxTimeMeme)

TickRes == Tick(MaxTimeRes)

(***************************************************************************)
(* The handlers as coroutines of the event loop. One task runs at a time   *)
(* and keeps the loop until it reaches an `await`, raises or returns.      *)
(* Memes.meme has no await before line 83 and Memes.neural_net none before *)
(* line 316: a handler runs from its start through get_bucket and          *)
(* update_rate_limit without giving up the loop.                           *)
(***************************************************************************)
Invokers == 1 .. NumInvokers

Commands == {"meme", "neural_net"}

\* An invocation: the command, the key of its cooldown (meme name or guild
\* name), whether the invoker is a moderator.
Invocation(cmd, key, mod) == [cmd |-> cmd, key |-> key, mod |-> mod]

NoInvocation == Invocation("none", "guild", FALSE)

InitHandlers ==
    /\ running = 0
    /\ hpc = [t \in Invokers |-> "idle"]
    /\ harg = [t \in Invokers |-> NoInvocation]
    /\ ninvoked = 0

\* The bucket a handler holds, as get_bucket gave it: just created, an
\* existing one whose tokens the update will refill, or an existing one kept.
GotHeld(b, rate, per, t) ==
    IF b = NewBucket(rate, per) THEN "new"
    ELSE IF t > b.window + per THEN "refilled"
    ELSE "kept"

\* AfterGetBucket with an await between get_bucket and update_rate_limit.
AfterGetBucket_await(t) == 0

\* Who has the loop after get_bucket returned to task t: the task itself,
\* the next statements being synchronous.
AfterGetBucket(t) == t

\* The handler task t leaves its handler (by raise or return).
Ends(t) ==
    /\ hpc' = [hpc EXCEPT ![t] = "idle"]
    /\ harg' = [harg EXCEPT ![t] = NoInvocation]

\* The handler task t is past its cooldown check and suspends in an await
\* (ctx.respond, ctx.defer); its arguments play no part any more.
Awaits(t) ==
    /\ hpc' = [hpc EXCEPT ![t] = "awaiting"]
    /\ harg' = [harg EXCEPT ![t] = NoInvocation]

\* An interaction arrives while the loop is free: a task is created for its
\* handler (tasks are numbered as they are taken: t is the first idle one).
Invoke(t, cmd, key, mod) ==
    /\ running = 0
    /\ hpc[t] = "idle"
    /\ \A u \in Invokers : u < t => hpc[u] # "idle"
    /\ ninvoked < MaxInvocations
    /\ ninvoked' = ninvoked + 1
    /\ hpc' = [hpc EXCEPT ![t] = "pending"]
    /\ harg' = [harg EXCEPT ![t] = Invocation(cmd, key, mod)]
    /\ UNCHANGED <<now, running, cooldownVars>>

\* Task t is scheduled and runs Memes.meme from line 59 through the
\* get_bucket call of line 66.
ObtainMeme(t) ==
    LET a == harg[t] IN
    /\ running = 0
    /\ hpc[t] = "pending"
    /\ a.cmd = "meme"
    /\ IF ~GetMeme(a.key)
       THEN /\ out' = Handled("meme", a.key, a.mod, "none", "unchecked", "no such meme")
            /\ Ends(t)
            /\ UNCHANGED <<running, meme_cooldown>>
       ELSE /\ meme_cooldown' = GetBucket(meme_cooldown, a.key, MemeRate, MemePer, now)
            /\ hpc' = [hpc EXCEPT ![t] = "got_bucket"]
            /\ running' = AfterGetBucket(t)
            /\ UNCHANGED <<out, harg>>
    /\ UNCHANGED <<now, res_cooldown, permitAt, granted, unswept, ninvoked>>

\* Task t goes on in Memes.meme, lines 67-70: update_rate_limit on the bucket
\* it holds, then the raise, or on to the awaits of line 83.
UpdateMeme(t) ==
    LET a == harg[t]
        u == UpdateRateLimit(meme_cooldown[a.key], now)
        refused == Refused(u.retry, a.mod)
    IN  /\ hpc[t] = "got_bucket"
        /\ a.cmd = "meme"
        /\ running \in {0, t}     \* t has the loop, or is resumed by it
        /\ meme_cooldown[a.key].present
        /\ meme_cooldown' = [meme_cooldown EXCEPT ![a.key] = u.bucket]
        /\ out' = Handled("meme", a.key, a.mod,
                          GotHeld(meme_cooldown[a.key], MemeRate, MemePer, now),
                          Verdict(u.retry),
                          IF refused THEN "on cooldown" ELSE "shown")
        /\ IF refused THEN Ends(t)
           ELSE Awaits(t)
        /\ running' = 0
        /\ UNCHANGED <<now, res_cooldown, permitAt, granted, unswept, ninvoked>>

\* Task t is scheduled and runs Memes.neural_net from line 301 through the
\* get_bucket call of line 310 (a moderator goes straight to line 316);
\* token: cfg.resnext_token is set, inChannel: the channel is general or
\* botspam.
ObtainNeuralNet(t, inChannel, token) ==
    LET a == harg[t] IN
    /\ running = 0
    /\ hpc[t] = "pending"
    /\ a.cmd = "neural_net"
    /\ IF ~token
       THEN /\ out' = Handled("neural_net", a.key, a.mod, "none", "unchecked", "no token")
            /\ Ends(t)
            /\ UNCHANGED <<running, res_cooldown>>
       ELSE IF ~inChannel /\ ~a.mod
       THEN /\ out' = Handled("neural_net", a.key, a.mod, "none", "unchecked", "wrong channel")
            /\ Ends(t)
            /\ UNCHANGED <<running, res_cooldown>>
       ELSE IF a.mod
       THEN /\ out' = Handled("neural_net", a.key, a.mod, "none", "unchecked", "deferred")
            /\ Awaits(t)
            /\ UNCHANGED <<running, res_cooldown>>
       ELSE /\ res_cooldown' = GetBucket(res_cooldown, a.key, ResRate, ResPer, now)
            /\ hpc' = [hpc EXCEPT ![t] = "got_bucket"]
            /\ running' = AfterGetBucket(t)
            /\ UNCHANGED <<out, harg>>
    /\ UNCHANGED <<now, meme_cooldown, permitAt, granted, unswept, ninvoked>>

\* Task t goes on in Memes.neural_net, lines 311-316: update_rate_limit on
\* the bucket it holds, then the raise, or on to `await ctx.defer`.
UpdateNeuralNet(t) ==
    LET a == harg[t]
        u == UpdateRateLimit(res_cooldown[a.key], now)
    IN  /\ hpc[t] = "got_bucket"
        /\ a.cmd = "neural_net"
        /\ running \in {0, t}     \* t has the loop, or is resumed by it
        /\ res_cooldown[a.key].present
        /\ res_cooldown' = [res_cooldown EXCEPT ![a.key] = u.bucket]
        /\ out' = Handled("neural_net", a.key, a.mod,
                          GotHeld(res_cooldown[a.key], ResRate, ResPer, now),
                          Verdict(u.retry),
                          IF Truthy(u.retry) THEN "on cooldown" ELSE "deferred")
        /\ IF Truthy(u.retry) THEN Ends(t)
           ELSE Awaits(t)
        /\ running' = 0
        /\ UNCHANGED <<now, meme_cooldown, permitAt, granted, unswept, ninvoked>>

\* The awaits after the cooldown check are over: the handler of task t returns.
Finish(t) ==
    /\ running = 0
    /\ hpc[t] = "awaiting"
    /\ Ends(t)
    /\ UNCHANGED <<now, running, cooldownVars, ninvoked>>

\* A second passes while the loop is free.
TickHandlers ==
    /\ running = 0
    /\ Tick(MaxTimeRace)
    /\ UNCHANGED handlerVars

(***************************************************************************)
(* The consumers of the cached functions: the autocompleters of            *)
(* utils/autocompleters.py and the jailbreak and firmware commands of      *)
(* cogs/commands/misc/ioscfw.py. The memory cache stores and returns the   *)
(* very object the function returned, so what a consumer does to a list it *)
(* got from a cached function, it does to the cached value.                *)
(*                                                                         *)
(* A string is a sequence of characters; JSON values are tagged records.   *)
(***************************************************************************)
\* The characters of the model, in code point order.
Chars ==
    <<" ", "(", ")", "1", "2", "4", "5", "A", "B", "E", "I", "M", "P", "S",
      "a", "b", "c", "d", "e", "f", "g", "h", "i", "j", "k", "l", "m",
      "n", "o", "p", "q", "r", "s", "t", "u", "v", "w", "x", "y", "z">>

\* ord(c)
Ord(c) == CHOOSE i \in DOMAIN Chars : Chars[i] = c

\* c.lower()
LowerChar(c) ==
    CASE c = "A" -> "a"
      [] c = "B" -> "b"
      [] c = "E" -> "e"
      [] c = "I" -> "i"
      [] c = "M" -> "m"
      [] c = "P" -> "p"
      [] c = "S" -> "s"
      [] OTHER -> c

\* s.lower()
Lower(s) == [i \in DOMAIN s |-> LowerChar(s[i])]

\* s.startswith(p)
StartsWith(s, p) == Len(p) <= Len(s) /\ SubSeq(s, 1, Len(p)) = p

\* a < b for str: by code points, a proper prefix first.
StrLess(a, b) ==
    \/ Len(a) < Len(b) /\ SubSeq(b, 1, Len(a)) = a
    \/ \E i \in 1 .. (IF Len(a) < Len(b) THEN Len(a) ELSE Len(b)) :
          /\ SubSeq(a, 1, i - 1) = SubSeq(b, 1, i - 1)
          /\ Ord(a[i]) < Ord(b[i])

\* s.split()[0] of a string that does not start with a blank.
FirstWord(s) ==
    IF \E i \in DOMAIN s : s[i] = " "
    THEN SubSeq(s, 1, (CHOOSE i \in DOMAIN s : s[i] = " " /\ \A j \in 1 .. i - 1 : s[j] # " ") - 1)
    ELSE s

RECURSIVE Insert(_, _)
\* x put into the sorted list l, after the elements that are not greater.
Insert(x, l) ==
    IF l = <<>> THEN <<x>>
    ELSE IF StrLess(x, Head(l)) THEN <<x>> \o l
    ELSE <<Head(l)>> \o Insert(x, Tail(l))

RECURSIVE Sorted(_)
\* The list of strings l after l.sort().
Sorted(l) ==
    IF l = <<>> THEN <<>>
    ELSE Insert(l[Len(l)], Sorted(SubSeq(l, 1, Len(l) - 1)))

\* The list l after l.reverse().
Reversed(l) == [i \in 1 .. Len(l) |-> l[Len(l) + 1 - i]]

\* The number of choices Discord shows: the [:25] of every autocompleter.
MaxChoices == 25

\* l[:n]
Take(l, n) == SubSeq(l, 1, IF Len(l) < n THEN Len(l) ELSE n)

\* list.sort() of a list of dicts: comparing two dicts raises TypeError, so
\* it raises as soon as there are two elements to compare.
SortRaises(l) == Len(l) >= 2

\* JSON values.
List(items) == [type |-> "list", items |-> items]

Null == [type |-> "null"]

\* The document of ios.cfw.guide/main.json.
Cfw(ios, jailbreak) == [type |-> "dict", ios |-> ios, jailbreak |-> jailbreak]

Signed(status) == [type |-> "dict", status |-> status]

\* First words of the devices device_autocomplete offers.
DeviceFamilies ==
    {<<"i", "p", "h", "o", "n", "e">>, <<"i", "p", "o", "d">>, <<"i", "p", "a", "d">>,
     <<"h", "o", "m", "e", "p", "o", "d">>, <<"a", "p", "p", "l", "e">>}

(***************************************************************************)
(* What the endpoints and the guild's database can hold.                   *)
(***************************************************************************)
IPad == <<"i", "P", "a", "d">>

IPod == <<"i", "P", "o", "d">>

Mac == <<"M", "a", "c">>

\* The device get_devices appends to the answered list (line 22).
IPhoneSE2 == <<"i", "P", "h", "o", "n", "e", " ", "S", "E", " ", "2">>

\* Device names of api.ipsw.me/v4/devices, in the order answered.
DeviceBodies == {<<IPod, IPad, Mac>>, <<IPad, IPod, IPad>>}

IosVersion(version, build) == [version |-> version, build |-> build]

V15 == IosVersion(<<"1", "5">>, <<"A">>)

V14 == IosVersion(<<"1", "4">>, <<"B">>)

\* An entry of the document's "jailbreak" list (of the Jailbreaks.app list).
App(name) == [name |-> name]

Palera1n == <<"p", "a", "l", "e", "r", "a", "1", "n">>

Checkra1n == <<"c", "h", "e", "c", "k", "r", "a", "1", "n">>

\* Documents of ios.cfw.guide/main.json (also the JSON document `null`).
CfwBodies ==
    {Cfw(<<V15, V14>>, <<App(Palera1n), App(Checkra1n)>>),
     Cfw(<<V14>>, <<App(Checkra1n)>>),
     Null}

JbaBodies == {List(<<App(Checkra1n)>>)}

SignedBodies == {Signed("Signed")}

\* The memes the guild has had for long: one fewer than Discord shows
\* choices ("mz", "my", ... down to "mc").
StoredMemes == [i \in 1 .. MaxChoices - 1 |-> <<"m", Chars[Len(Chars) + 1 - i]>>]

\* Names a moderator may give to add or delete.
GivenNames ==
    {<<"P", "e", "p", "e">>, <<"d", "o", "g", "e">>, <<"m", "b">>, <<"m", "a">>,
     <<"m", " ", "a">>, <<"m", "z">>}

\* What a user has typed so far (ctx.value), per autocompleter.
Typed(who) ==
    CASE who = "device_autocomplete" -> {<<>>, <<"I", "P">>, <<"m">>}
      [] who = "jb_autocomplete" -> {<<>>, <<"c">>}
      [] who = "ios_autocomplete" -> {<<>>, <<"1", "5">>}
      [] who = "memes_autocomplete" -> {<<>>, <<"P">>, <<"m">>}

\* f"{v['version']} ({v['build']})"
VersionLabel(v) == v.version \o <<" ", "(">> \o v.build \o <<")">>

\* Answers of an endpoint: 200 with a body, another status, or none (network
\* error, timeout, a body that does not parse).
Ok(body) == [status |-> 200, body |-> body]

NotOk == [status |-> 500]

NoAnswer == [status |-> 0]

Bodies(f) ==
    CASE f = "get_devices" -> DeviceBodies
      [] f = "get_ios_cfw" -> CfwBodies
      [] f = "get_jailbreaks_jba" -> JbaBodies
      [] f = "get_signed_status" -> SignedBodies

Answers(f) == {Ok(b) : b \in Bodies(f)} \cup {NotOk, NoAnswer}

RECURSIVE Dedup(_)
\* The names of l in order, each once (`if name not in res_devices`).
Dedup(l) ==
    IF l = <<>> THEN <<>>
    ELSE LET d == Dedup(SubSeq(l, 1, Len(l) - 1)) IN
         IF \E i \in DOMAIN d : d[i] = l[Len(l)] THEN d ELSE Append(d, l[Len(l)])

\* What function f returns for a 200 answer with the given body.
Parsed(f, body) ==
    IF f = "get_devices" THEN List(Dedup(body \o <<IPhoneSE2>>)) ELSE body

\* The value a consumer gets from the cached function f when the endpoint
\* would answer a: the cache and the record of produced values afterwards,
\* and the result. A value is stored and returned as the same object; None
\* is as good as not stored (the decorator takes it for a miss).
Get(c, p, f, a, t) ==
    LET stored(v) ==
            [cache |-> CacheSet(c, f, v, t),
             produced |-> [p EXCEPT ![CacheKey(f)] = [present |-> TRUE, value |-> v]],
             result |-> Val(v)]
        failed == [cache |-> c, produced |-> p, result |-> Err]
    IN  IF CacheHit(c, f)
        THEN [cache |-> c, produced |-> p, result |-> Val(c[CacheKey(f)].value)]
        ELSE IF a.status = 200
        THEN IF Parsed(f, a.body) = Null
             THEN [cache |-> c, produced |-> p, result |-> Val(Null)]
             ELSE stored(Parsed(f, a.body))
        ELSE IF a.status = 500 /\ ~Non200Raises(f)
        THEN stored(List(<<>>))
        ELSE failed

\* The record of a consumer call that has returned: which consumer, what was
\* typed, and the list it gave or the exception.
Replied(who, typed, result) == [who |-> who, typed |-> typed, result |-> result]

InitConsumers ==
    /\ memes = StoredMemes
    /\ produced = [k \in Keys |-> NoEntry]
    /\ reply = Replied("none", <<>>, Val(<<>>))

\* device_autocomplete: sorts the list get_devices gave (the cached list
\* itself) and offers the devices of the known families that start with
\* what was typed.
DeviceAutocomplete(typed, a) ==
    LET g == Get(cache, produced, "get_devices", a, now) IN
    /\ IF g.result.err
       THEN /\ cache' = g.cache
            /\ reply' = Replied("device_autocomplete", typed, Err)
       ELSE LET devices == Sorted(g.result.value.items)
                Offered(device) ==
                    /\ StartsWith(Lower(device), Lower(typed))
                    /\ FirstWord(Lower(device)) \in DeviceFamilies
            IN  /\ cache' = [g.cache EXCEPT ![CacheKey("get_devices")].value = List(devices)]
                /\ reply' = Replied("device_autocomplete", typed,
                                    Val(Take(SelectSeq(devices, Offered), MaxChoices)))
    /\ produced' = g.produced
    /\ UNCHANGED <<now, memes, pc, fn, seen, last, ncalls, nended, stale>>

\* jb_autocomplete: sorts the "jailbreak" list of the cached document (a
\* list of dicts) and offers the names that start with what was typed.
JbAutocomplete(typed, a) ==
    LET g == Get(cache, produced, "get_ios_cfw", a, now) IN
    /\ cache' = g.cache
    /\ produced' = g.produced
    /\ IF g.result.err
       THEN reply' = Replied("jb_autocomplete", typed, Err)
       ELSE IF g.result.value = Null
       THEN reply' = Replied("jb_autocomplete", typed, Val(<<>>))
       ELSE LET apps == g.result.value.jailbreak
                Offered(app) == StartsWith(Lower(app.name), Lower(typed))
                names == [i \in DOMAIN apps |-> apps[i].name]
                Named(name) == StartsWith(Lower(name), Lower(typed))
            IN  IF SortRaises(apps)
                THEN reply' = Replied("jb_autocomplete", typed, Err)
                ELSE reply' = Replied("jb_autocomplete", typed,
                                      Val(Take(SelectSeq(names, Named), MaxChoices)))
    /\ UNCHANGED <<now, memes, pc, fn, seen, last, ncalls, nended, stale>>

\* ios_autocomplete: reverses the "ios" list of the cached document (in the
\* document itself) and offers the versions that start with what was typed.
IosAutocomplete(typed, a) ==
    LET g == Get(cache, produced, "get_ios_cfw", a, now) IN
    /\ produced' = g.produced
    /\ IF g.result.err
       THEN /\ cache' = g.cache
            /\ reply' = Replied("ios_autocomplete", typed, Err)
       ELSE IF g.result.value = Null
       THEN /\ cache' = g.cache
            /\ reply' = Replied("ios_autocomplete", typed, Val(<<>>))
       ELSE LET versions == Reversed(g.result.value.ios)
                Offered(v) == StartsWith(Lower(v.version), Lower(typed))
                offered == SelectSeq(versions, Offered)
            IN  /\ cache' = [g.cache EXCEPT ![CacheKey("get_ios_cfw")].value.ios = versions]
                /\ reply' = Replied("ios_autocomplete", typed,
                                    Val(Take([i \in DOMAIN offered |-> VersionLabel(offered[i])],
                                             MaxChoices)))
    /\ UNCHANGED <<now, memes, pc, fn, seen, last, ncalls, nended, stale>>

\* memes_autocomplete: the lower-cased names of the guild's memes, sorted,
\* those that start with what was typed.
MemesAutocomplete(typed) ==
    LET names == Sorted([i \in DOMAIN memes |-> Lower(memes[i])])
        Offered(meme) == StartsWith(Lower(meme), Lower(typed))
    IN  /\ reply' = Replied("memes_autocomplete", typed,
                            Val(Take(SelectSeq(names, Offered), MaxChoices)))
        /\ UNCHANGED <<now, memes, cache, produced, pc, fn, seen, last, ncalls, nended, stale>>

\* name.isalnum()
IsAlnum(name) == name # <<>> /\ \A i \in DOMAIN name : name[i] \notin {" ", "(", ")"}

\* guild_service.get_meme(name) finds a meme.
HasMeme(name) == \E i \in DOMAIN memes : memes[i] = name

\* The memes add command: refuses a name that is not alphanumeric or is
\* taken; stores the lower-cased name unless the prompt is cancelled or the
\* attachment is no image (completed = FALSE).
Add(name, completed) ==
    /\ IF IsAlnum(name) /\ ~HasMeme(Lower(name)) /\ completed
       THEN /\ memes' = Append(memes, Lower(name))
            /\ reply' = Replied("add", name, Val(<<Lower(name)>>))
       ELSE /\ memes' = memes
            /\ reply' = Replied("add", name, Err)
    /\ UNCHANGED <<now, cache, produced, pc, fn, seen, last, ncalls, nended, stale>>

\* The memes delete command: removes the meme of the lower-cased name.
Delete(name) ==
    LET Other(meme) == meme # Lower(name) IN
    /\ IF HasMeme(Lower(name))
       THEN /\ memes' = SelectSeq(memes, Other)
            /\ reply' = Replied("delete", name, Val(<<Lower(name)>>))
       ELSE /\ memes' = memes
            /\ reply' = Replied("delete", name, Err)
    /\ UNCHANGED <<now, cache, produced, pc, fn, seen, last, ncalls, nended, stale>>

\* The firmware command: looks the version up in the cached document and
\* answers with it (raises when there is no document or no such version).
Firmware(version, a) ==
    LET g == Get(cache, produced, "get_ios_cfw", a, now) IN
    /\ cache' = g.cache
    /\ produced' = g.produced
    /\ IF g.result.err \/ g.result.value = Null
       THEN reply' = Replied("firmware", version, Err)
       ELSE LET Matches(v) == VersionLabel(v) = version
                ios == SelectSeq(g.result.value.ios, Matches)
            IN  reply' = Replied("firmware", version,
                                 IF ios = <<>> THEN Err ELSE Val(<<VersionLabel(ios[1])>>))
    /\ UNCHANGED <<now, memes, pc, fn, seen, last, ncalls, nended, stale>>

\* The jailbreak command: looks the name up in the cached document, then in
\* the list of get_jailbreaks_jba (iterate_apps), asks get_signed_status,
\* and answers with the jailbreak (raises when a lookup or a function does,
\* and on signed.get when get_signed_status gave its empty list).
Jailbreak(name, a, ajba, asigned) ==
    LET g == Get(cache, produced, "get_ios_cfw", a, now)
        Matches(jb) == Lower(jb.name) = Lower(name)
        found == ~g.result.err /\ g.result.value # Null
                 /\ SelectSeq(g.result.value.jailbreak, Matches) # <<>>
        gjba == Get(g.cache, g.produced, "get_jailbreaks_jba", ajba, now)
        gsigned == Get(gjba.cache, gjba.produced, "get_signed_status", asigned, now)
    IN  /\ IF ~found
           THEN /\ cache' = g.cache
                /\ produced' = g.produced
                /\ reply' = Replied("jailbreak", name, Err)
           ELSE IF gjba.result.err
           THEN /\ cache' = gjba.cache
                /\ produced' = gjba.produced
                /\ reply' = Replied("jailbreak", name, Err)
           ELSE /\ cache' = gsigned.cache
                /\ produced' = gsigned.produced
                /\ reply' =
                     Replied("jailbreak", name,
                             IF gsigned.result.err THEN Err
                             ELSE IF SelectSeq(gjba.result.value.items, Matches) # <<>>
                                     /\ gsigned.result.value.type = "list"
                             THEN Err
                             ELSE Val(<<SelectSeq(g.result.value.jailbreak, Matches)[1].name>>))
        /\ UNCHANGED <<now, memes, pc, fn, seen, last, ncalls, nended, stale>>

\* Time passes; the timers that become due delete their entries.
TickConsumers ==
    /\ now + Step <= MaxTicks * Step
    /\ now' = now + Step
    /\ cache' = Evict(cache, now')
    /\ produced' = [k \in Keys |-> IF cache'[k].present THEN produced[k] ELSE NoEntry]
    /\ UNCHANGED <<memes, reply, pc, fn, seen, last, ncalls, nended, stale>>

Init == InitCache /\ InitCooldown /\ InitHandlers /\ InitConsumers

NextCache ==
    /\ \/ \E t \in Tasks, f \in Funcs : Call(t, f)
       \/ \E t \in Tasks, v \in Payloads : ProducerOk(t, v)
       \/ \E t \in Tasks : ProducerNon200(t)
       \/ \E t \in Tasks : ProducerRaise(t)
       \/ TickCache
    /\ UNCHANGED <<cooldownVars, handlerVars, consumerVars>>

SpecCache == Init /\ [][NextCache]_vars

NextMeme ==
    /\ \/ \E name \in MemeNames, mod \in BOOLEAN : Meme(name, mod)
       \/ TickMeme
    /\ UNCHANGED <<cacheVars, handlerVars, consumerVars>>

SpecMeme == Init /\ [][NextMeme]_vars

NextRes ==
    /\ \/ \E guild \in Guilds, mod \in BOOLEAN, inChannel \in BOOLEAN, token \in BOOLEAN :
              NeuralNet(guild, mod, inChannel, token)
       \/ TickRes
    /\ UNCHANGED <<cacheVars, handlerVars, consumerVars>>

SpecRes == Init /\ [][NextRes]_vars

NextHandlers ==
    /\ \/ \E t \in Invokers, name \in MemeNames, mod \in BOOLEAN :
              Invoke(t, "meme", name, mod)
       \/ \E t \in Invokers, guild \in Guilds, mod \in BOOLEAN :
              Invoke(t, "neural_net", guild, mod)
       \/ \E t \in Invokers : ObtainMeme(t)
       \/ \E t \in Invokers : UpdateMeme(t)
       \/ \E t \in Invokers, inChannel \in BOOLEAN, token \in BOOLEAN :
              ObtainNeuralNet(t, inChannel, token)
       \/ \E t \in Invokers : UpdateNeuralNet(t)
       \/ \E t \in Invokers : Finish(t)
       \/ TickHandlers
    /\ UNCHANGED <<cacheVars, consumerVars>>

SpecHandlers == Init /\ [][NextHandlers]_vars

\* The answers to consider for function f: its endpoint is asked only when
\* the cache has no value for f.
Asked(f) == IF CacheHit(cache, f) THEN {NoAnswer} ELSE Answers(f)

NextConsumers ==
    /\ \/ \E typed \in Typed("device_autocomplete"), a \in Asked("get_devices") :
              DeviceAutocomplete(typed, a)
       \/ \E typed \in Typed("jb_autocomplete"), a \in Asked("get_ios_cfw") :
              JbAutocomplete(typed, a)
       \/ \E typed \in Typed("ios_autocomplete"), a \in Asked("get_ios_cfw") :
              IosAutocomplete(typed, a)
       \/ \E version \in {VersionLabel(V15), <<"1", "5">>}, a \in Asked("get_ios_cfw") :
              Firmware(version, a)
       \/ \E name \in {Checkra1n, <<"c">>}, a \in Asked("get_ios_cfw"),
             ajba \in Asked("get_jailbreaks_jba"), asigned \in Asked("get_signed_status") :
              Jailbreak(name, a, ajba, asigned)
       \/ TickConsumers
    /\ UNCHANGED <<cooldownVars, handlerVars>>

SpecConsumers == Init /\ [][NextConsumers]_vars

NextMemes ==
    /\ \/ \E typed \in Typed("memes_autocomplete") : MemesAutocomplete(typed)
       \/ \E name \in GivenNames, completed \in BOOLEAN : Add(name, completed)
       \/ \E name \in GivenNames : Delete(name)
    /\ UNCHANGED <<cooldownVars, handlerVars>>

SpecMemes == Init /\ [][NextMemes]_vars

(***************************************************************************)
(* Vocabulary of the properties of the cached fetch functions.             *)
(***************************************************************************)
\* The entry stored for function f.
Entry(f) == cache[CacheKey(f)]

\* The tasks suspended in a request of function f: its computations in flight.
Fetchers(f) == {t \in Tasks : pc[t] = "fetching" /\ fn[t] = f}

\* f has an entry and its expiry time is still ahead.
Fresh(f) == Entry(f).present /\ now < Entry(f).expiresAt

\* This step is a call of f that returns at once.
HitStep(f) == ncalls' = ncalls + 1 /\ pc' = pc /\ last'.fn = f

\* This step is a call of f by task t that starts a request.
MissStep(t, f) ==
    /\ ncalls' = ncalls + 1
    /\ pc[t] = "idle" /\ pc'[t] = "fetching" /\ fn'[t] = f
    /\ \A u \in Tasks \ {t} : pc'[u] = pc[u]

\* This step is a call of f.
CallOf(f) == HitStep(f) \/ \E t \in Tasks : MissStep(t, f)

\* This step ends the request of task t.
EndStep(t) ==
    /\ nended' = nended + 1
    /\ pc[t] = "fetching" /\ pc'[t] = "idle"
    /\ \A u \in Tasks \ {t} : pc'[u] = pc[u]

(***************************************************************************)
(* C1. Single-flight: at most one computation is in flight per key in      *)
(* every reachable state (so that N concurrent callers of a missing or     *)
(* expired key cause one producer invocation and share its outcome).       *)
(* The decorator keeps no record of requests in flight: every caller that  *)
(* misses starts its own request.                                          *)
(***************************************************************************)
C1_SingleFlight == \A f \in Funcs : Cardinality(Fetchers(f)) <= 1

C3_Expiry ==
    [][/\ \A f \in Funcs :
            CallOf(f) /\ ~Fresh(f) =>
                /\ \E t \in Tasks : MissStep(t, f)
                /\ last' = last
                /\ cache' = cache
       /\ \A t \in Tasks :
            EndStep(t) /\ ~last'.result.err =>
                /\ last'.fn = fn[t]
                /\ cache'[CacheKey(fn[t])] =
                       [present |-> TRUE, value |-> last'.result.value,
                        expiresAt |-> now + Ttl(fn[t])]]_vars

\* A call made after the key's entry had expired has returned the value of
\* its own request, and that value is stored for ttl seconds from now.
C3_Witness ==
    /\ last.seen = "expired"
    /\ last.how = "ok"
    /\ Entry(last.fn) = [present |-> TRUE, value |-> last.result.value,
                         expiresAt |-> now + Ttl(last.fn)]
    /\ now >= Ttl(last.fn)

(***************************************************************************)
(* C4. A failed fetch is not cached: when the producer fails (network      *)
(* error, non-success HTTP status, malformed payload) the caller receives  *)
(* the error. get_devices, get_jailbreaks_jba and get_signed_status return *)
(* their empty list on a non-200 status, and the decorator stores it.      *)
(***************************************************************************)
C4_FailedFetchNotCached ==
    last.how \in {"non200", "raised"} => last.result = Err

(***************************************************************************)
(* C5. No wedged key: a request that raises (error, timeout,               *)
(* cancellation) ends with its caller resumed with that failure and no     *)
(* longer in flight, and a later call of the same function that finds no   *)
(* entry starts a new request.                                             *)
(***************************************************************************)
C5_NoWedge ==
    [][/\ nended' = nended + 1 =>
            \E t \in Tasks :
                /\ EndStep(t)
                /\ last'.fn = fn[t]
                /\ last'.how = "raised" => last'.result = Err /\ cache' = cache
       /\ \A f \in Funcs :
            CallOf(f) /\ last.fn = f /\ last.result = Err /\ ~Entry(f).present =>
                \E t \in Tasks : MissStep(t, f)]_vars

\* After a refresh of an expired key failed, a later call of the same
\* function is suspended in a new request.
C5_Witness ==
    /\ last.how = "raised"
    /\ \E t \in Tasks : pc[t] = "fetching" /\ fn[t] = last.fn /\ seen[t] = "failed"

(***************************************************************************)
(* C6. No silent resurrection of stale data: once a key's entry has        *)
(* expired and a refresh of it has raised, the key has no entry and no     *)
(* call is served from the cache until a later request stores a value;     *)
(* the caller of each request that raises receives the error.              *)
(***************************************************************************)
C6_NoResurrection ==
    /\ [](/\ \A f \in Funcs : stale[CacheKey(f)] # "clean" => ~Entry(f).present
          /\ last.how = "hit" => last.seen = "clean"
          /\ last.how = "raised" => last.result = Err)
    /\ [][\A f \in Funcs :
            stale[CacheKey(f)] = "failed" /\ stale'[CacheKey(f)] # "failed" =>
                /\ \E t \in Tasks : EndStep(t) /\ fn[t] = f
                /\ ~last'.result.err
                /\ (Entry(f).present)']_vars

\* A second attempt after an expiry and a failed refresh failed as well,
\* and its caller received the error.
C6_Witness == last.seen = "failed" /\ last.how = "raised" /\ last.result = Err

(***************************************************************************)
(* C7. Independence: a step changes the entry or the requests in flight of *)
(* function f only if it is a call of f, the end of a request of f, or the *)
(* expiry of f's own entry; calls, refreshes, failures and expiries of     *)
(* another function leave them as they are.                                *)
(***************************************************************************)
C7_Independence ==
    [][\A f \in Funcs :
          (Entry(f))' # Entry(f) \/ (Fetchers(f))' # Fetchers(f) =>
              \/ \E t \in Tasks : MissStep(t, f) /\ cache' = cache
              \/ \E t \in Tasks : EndStep(t) /\ fn[t] = f
              \/ /\ now' # now
                 /\ (Fetchers(f))' = Fetchers(f)
                 /\ Entry(f).present /\ Entry(f).expiresAt <= now'
                 /\ ~(Entry(f).present)']_vars

\* One function's request has just raised while another function has a
\* fresh entry and a third a request in flight.
C7_Witness ==
    /\ last.how = "raised"
    /\ \E g \in Funcs \ {last.fn} : Fresh(g)
    /\ \E g \in Funcs \ {last.fn} : Fetchers(g) # {}

(***************************************************************************)
(* Vocabulary of the properties of the cooldowns.                          *)
(***************************************************************************)
\* This step is the handling of an invocation (not the passing of time);
\* out' describes it.
Invoked == now' = now

\* The permits the bucket has given out in its window.
Count(b, rate) == rate - b.tokens

(***************************************************************************)
(* C8. Rate-limit boundedness: for every key, the calls the limiter lets   *)
(* through with timestamps in any interval of length period are at most    *)
(* limit. With the meme command's limit of 1: a call is let through only   *)
(* if none was let through less than a period before.                      *)
(* At exactly window + per the bucket has no token and reports 0 seconds   *)
(* to wait, which the handler reads as "not limited": the call passes      *)
(* without taking a token, and so does any call in the same instant and    *)
(* the next one after it.                                                  *)
(***************************************************************************)
C8_Bounded ==
    [][Invoked /\ out'.limiter = "passed" =>
          1 + (IF permitAt[out'.key] # Never THEN 1 ELSE 0) <= MemeRate]_vars

(***************************************************************************)
(* C9 as stated. Window reset: a call on an existing bucket with           *)
(* now >= windowStart + period (also exactly now = windowStart + period)   *)
(* is let through, sets windowStart to now and leaves count = 1.           *)
(***************************************************************************)
C9_WindowReset ==
    [][\A k \in ExistingMemes :
          /\ Invoked /\ out'.cmd = "meme" /\ out'.key = k
          /\ meme_cooldown[k].present
          /\ now >= meme_cooldown[k].window + MemePer
          => /\ out'.limiter = "passed"
             /\ meme_cooldown'[k].window = now
             /\ Count(meme_cooldown'[k], MemeRate) = 1]_vars

(***************************************************************************)
(* C9 as amended. A call on an existing bucket with                        *)
(* now > windowStart + period is let through, sets windowStart to now and  *)
(* leaves count = 1; a call before windowStart + period with the permit    *)
(* used is denied and leaves the window as it is (limit 1, period 5: calls *)
(* at 0, 2 and any time after 5 give true, false, true).                   *)
(***************************************************************************)
C9_WindowResetStrict ==
    [][\A k \in ExistingMemes :
          Invoked /\ out'.cmd = "meme" /\ out'.key = k /\ meme_cooldown[k].present =>
              /\ now > meme_cooldown[k].window + MemePer =>
                    /\ out'.limiter = "passed"
                    /\ meme_cooldown'[k].window = now
                    /\ Count(meme_cooldown'[k], MemeRate) = 1
              /\ now < meme_cooldown[k].window + MemePer /\ meme_cooldown[k].tokens = 0 =>
                    /\ out'.limiter = "limited"
                    /\ meme_cooldown'[k].window = meme_cooldown[k].window]_vars

\* A bucket that was used, and denied a call, in its window has had its
\* tokens refilled after the window and has let the call through.
C9_Witness ==
    /\ out.cmd = "meme" /\ out.bucket = "refilled" /\ out.limiter = "passed"
    /\ meme_cooldown[out.key].present
    /\ meme_cooldown[out.key].window = now
    /\ Count(meme_cooldown[out.key], MemeRate) = 1

(***************************************************************************)
(* C10. Privilege bypass skips the limiter: an invocation of meme or       *)
(* neural_net by a moderator (or sub-mod) performs no check-and-consume,   *)
(* so it leaves every bucket as it is.                                     *)
(* Memes.meme evaluates bucket.update_rate_limit(current) before the       *)
(* privilege test of the same `and`, so a moderator's invocation takes the *)
(* meme's permit.                                                          *)
(***************************************************************************)
C10_BypassSkipsLimiter ==
    [][Invoked /\ out'.mod =>
          /\ out'.limiter = "unchecked"
          /\ meme_cooldown' = meme_cooldown
          /\ res_cooldown' = res_cooldown]_vars

(***************************************************************************)
(* Vocabulary of the properties of the handler tasks.                      *)
(***************************************************************************)
\* The bucket the invocation a is about, in the mapping of its command.
BucketOf(a) == IF a.cmd = "meme" THEN meme_cooldown[a.key] ELSE res_cooldown[a.key]

\* This step is task t's update_rate_limit on the bucket it holds.
UpdateStep(t) == hpc[t] = "got_bucket" /\ hpc'[t] # "got_bucket"

(***************************************************************************)
(* C11. Cooldown calls are atomic: once a handler task has obtained its    *)
(* bucket, the next step of the program is that task's own                 *)
(* update_rate_limit, at the same time and with every other task where it  *)
(* was (no suspension point lies between the two), so at most one task     *)
(* holds a bucket it has not updated; and of the callers racing on one     *)
(* key, once one has started a window at this instant and taken its        *)
(* permit (limit 1), every other one is denied.                            *)
(***************************************************************************)
C11_Atomic ==
    /\ [](Cardinality({t \in Invokers : hpc[t] = "got_bucket"}) <= 1)
    /\ [][\A t \in Invokers :
            hpc[t] = "got_bucket" =>
                /\ UpdateStep(t)
                /\ now' = now
                /\ \A u \in Invokers \ {t} : hpc'[u] = hpc[u] /\ harg'[u] = harg[u]
                /\ BucketOf(harg[t]).window = now /\ BucketOf(harg[t]).tokens = 0 =>
                       out'.limiter = "limited"]_vars

\* Two invocations of one key are in their handlers at once: one has passed
\* the limiter in a window it started at this instant and is suspended in
\* its response, the other now holds the same bucket.
C11_Witness ==
    \E t, u \in Invokers :
        /\ hpc[t] = "got_bucket" /\ hpc[u] = "awaiting"
        /\ BucketOf(harg[t]).window = now /\ BucketOf(harg[t]).tokens = 0
        /\ out.key = harg[t].key /\ out.bucket = "new" /\ out.limiter = "passed"

(***************************************************************************)
(* C12. Cached values are never mutated by consumers: while a key has an   *)
(* entry, the stored value equals, element for element and in the same     *)
(* order, what the function returned at the last refresh.                  *)
(* device_autocomplete sorts the list it got from get_devices and          *)
(* ios_autocomplete reverses the "ios" list of the document it got from    *)
(* get_ios_cfw; both are the objects the cache holds.                      *)
(***************************************************************************)
C12_CachedValueUnchanged ==
    \A k \in Keys :
        cache[k].present => produced[k].present /\ cache[k].value = produced[k].value

\* The first MaxChoices of the candidates, sorted, that start with what was
\* typed, compared without regard to case.
Expected(candidates, typed) ==
    LET Matches(c) == StartsWith(Lower(c), Lower(typed)) IN
    Take(SelectSeq(Sorted(candidates), Matches), MaxChoices)

\* The names of the "jailbreak" list of the cached document.
JailbreakNames ==
    [i \in DOMAIN Entry("get_ios_cfw").value.jailbreak |->
        Entry("get_ios_cfw").value.jailbreak[i].name]

(***************************************************************************)
(* C13. Autocomplete result: what an autocompleter returns for a           *)
(* collection of candidates and a typed prefix is the first 25 (or all, if *)
(* fewer) of the candidates, sorted, that start with the prefix without    *)
(* regard to case.                                                         *)
(* jb_autocomplete sorts a list of dicts, which raises TypeError as soon   *)
(* as the list has two entries, and device_autocomplete leaves out every   *)
(* device whose first word is not iphone, ipod, ipad, homepod or apple.    *)
(***************************************************************************)
C13_AutocompleteResult ==
    /\ reply.who = "memes_autocomplete" =>
          reply.result = Val(Expected(memes, reply.typed))
    /\ reply.who = "device_autocomplete" /\ Entry("get_devices").present =>
          reply.result = Val(Expected(Entry("get_devices").value.items, reply.typed))
    /\ reply.who = "jb_autocomplete" /\ Entry("get_ios_cfw").present =>
          reply.result = Val(Expected(JailbreakNames, reply.typed))

(***************************************************************************)
(* Vocabulary of the properties that relate two cooldown keys.             *)
(***************************************************************************)
\* A cooldown key: the command whose mapping holds it, and the key.
CooldownKeys ==
    {[cmd |-> "meme", key |-> k] : k \in ExistingMemes}
        \cup {[cmd |-> "neural_net", key |-> k] : k \in Guilds}

RateOf(cmd) == IF cmd = "meme" THEN MemeRate ELSE ResRate

PerOf(cmd) == IF cmd = "meme" THEN MemePer ELSE ResPer

MappingOf(cmd) == IF cmd = "meme" THEN meme_cooldown ELSE res_cooldown

\* A call on cooldown key b made now would be let through by the limiter.
WouldPass(b) ==
    LET m == GetBucket(MappingOf(b.cmd), b.key, RateOf(b.cmd), PerOf(b.cmd), now) IN
    ~Truthy(UpdateRateLimit(m[b.key], now).retry)

\* The cooldown key task t is handling in this step.
KeyOf(t) ==
    IF hpc[t] = "idle"
    THEN [cmd |-> harg'[t].cmd, key |-> harg'[t].key]
    ELSE [cmd |-> harg[t].cmd, key |-> harg[t].key]

\* This step changes a cooldown mapping (a step that changes none changes no
\* bucket and, being no passing of time, no verdict).
CooldownsChange == meme_cooldown' # meme_cooldown \/ res_cooldown' # res_cooldown

\* The bucket of b has not been used for more than its period.
Dead(b) == BucketOf(b).present /\ now > BucketOf(b).last + PerOf(b.cmd)

(***************************************************************************)
(* C14 as stated. Cooldown key independence: a step of an invocation on    *)
(* one key leaves the bucket (count, windowStart) of every other key as it *)
(* is, and never turns a call on another key from permitted to denied.     *)
(***************************************************************************)
C14_KeyIndependence ==
    [][\A t \in Invokers :
          hpc'[t] # hpc[t] /\ CooldownsChange =>
              \A b \in CooldownKeys \ {KeyOf(t)} :
                  /\ (BucketOf(b))' = BucketOf(b)
                  /\ WouldPass(b) => (WouldPass(b))']_vars

(***************************************************************************)
(* C14 as amended. A step of an invocation on one key leaves the bucket of *)
(* every other key as it is, except that it may remove a bucket of the     *)
(* same mapping that has not been used for more than its period; and it    *)
(* never turns a call on another key from permitted to denied.             *)
(***************************************************************************)
C14_KeyIndependenceLive ==
    [][\A t \in Invokers :
          hpc'[t] # hpc[t] /\ CooldownsChange =>
              \A b \in CooldownKeys \ {KeyOf(t)} :
                  /\ \/ (BucketOf(b))' = BucketOf(b)
                     \/ /\ Dead(b) /\ b.cmd = KeyOf(t).cmd
                        /\ (BucketOf(b))' = NoBucket
                  /\ WouldPass(b) => (WouldPass(b))']_vars

\* An invocation on one key has been let through while another key of the
\* same mapping, used before, still has its permit taken and its bucket.
C14_Witness ==
    \E b \in CooldownKeys :
        /\ out.cmd = b.cmd /\ out.key # b.key /\ out.limiter = "passed"
        /\ BucketOf(b).present /\ BucketOf(b).tokens = 0
        /\ BucketOf(b).last < now
        /\ ~WouldPass(b)

(***************************************************************************)
(* C15. Rate parameters are bound when a key's bucket is created: every    *)
(* bucket of the meme mapping carries the limit and period the mapping was *)
(* made with (1 and 5), they never change while the bucket exists, and     *)
(* every call on an existing bucket is decided with them: denied before    *)
(* windowStart + period once the limit is used, let through after          *)
(* windowStart + period. (A call passes no limit or period of its own:     *)
(* get_bucket and update_rate_limit take none.)                            *)
(***************************************************************************)
C15_BoundAtCreation ==
    /\ [](\A k \in ExistingMemes :
             meme_cooldown[k].present =>
                 meme_cooldown[k].rate = MemeRate /\ meme_cooldown[k].per = MemePer)
    /\ [][\A k \in ExistingMemes :
             LET b == meme_cooldown[k] IN
             /\ b.present /\ meme_cooldown'[k].present =>
                    meme_cooldown'[k].rate = b.rate /\ meme_cooldown'[k].per = b.per
             /\ Invoked /\ out'.key = k /\ out'.bucket # "new" =>
                    /\ b.present
                    /\ now < b.window + b.per /\ Count(b, b.rate) >= b.rate =>
                           out'.limiter = "limited"
                    /\ now > b.window + b.per => out'.limiter = "passed"]_vars

\* A bucket created by an earlier invocation has denied a later one, with
\* the limit and period it was created with.
C15_Witness ==
    /\ out.cmd = "meme" /\ out.bucket = "kept" /\ out.limiter = "limited"
    /\ meme_cooldown[out.key].present
    /\ meme_cooldown[out.key].rate = MemeRate /\ meme_cooldown[out.key].per = MemePer
    /\ meme_cooldown[out.key].last > meme_cooldown[out.key].window

(***************************************************************************)
(* Vocabulary of the properties of a denied call.                          *)
(***************************************************************************)
\* The times, from now until a period and more has passed, at which a call
\* of meme on key k would be let through by the limiter, were mapping m
\* left alone until then.
PassTimes(m, k) ==
    {t \in now..(now + MemePer + 1) :
        ~Truthy(UpdateRateLimit(GetBucket(m, k, MemeRate, MemePer, t)[k], t).retry)}

(***************************************************************************)
(* C19. A denied call changes nothing: when the limiter denies an          *)
(* invocation of meme, the bucket of the meme's name exists before and     *)
(* after with the same count and the same windowStart, and the times at    *)
(* which the key is let through again are the same after the call as       *)
(* before (repeated denied calls postpone nothing).                        *)
(***************************************************************************)
C19_DeniedChangesNothing ==
    [][\A k \in ExistingMemes :
          Invoked /\ out'.cmd = "meme" /\ out'.key = k /\ out'.limiter = "limited" =>
              /\ meme_cooldown[k].present /\ meme_cooldown'[k].present
              /\ Count(meme_cooldown'[k], MemeRate) = Count(meme_cooldown[k], MemeRate)
              /\ meme_cooldown'[k].window = meme_cooldown[k].window
              /\ PassTimes(meme_cooldown', k) = PassTimes(meme_cooldown, k)]_vars

\* A call has been denied some time after the call that took the permit:
\* the bucket records the denied call as its last use, with the window of
\* the permitted call and the permit still taken.
C19_Witness ==
    /\ out.cmd = "meme" /\ out.limiter = "limited" /\ out.outcome = "on cooldown"
    /\ meme_cooldown[out.key].present
    /\ meme_cooldown[out.key].last = now
    /\ meme_cooldown[out.key].window < now
    /\ permitAt[out.key] = meme_cooldown[out.key].window
    /\ Count(meme_cooldown[out.key], MemeRate) = MemeRate

(***************************************************************************)
(* Vocabulary of the bucket invariant.                                     *)
(***************************************************************************)
\* How many of the times of s lie in the window of bucket b,
\* [windowStart, windowStart + period).
InWindow(s, b) == Len(SelectSeq(s, LAMBDA x : x >= b.window /\ x < b.window + b.per))

(***************************************************************************)
(* C20. Bucket invariant: in every reachable state, every bucket of the    *)
(* meme mapping (limit 1 >= 0) has 0 <= count <= limit, and its count is   *)
(* the number of calls on its key that the limiter let through with a      *)
(* timestamp in [windowStart, windowStart + period).                       *)
(***************************************************************************)
C20_BucketInvariant ==
    \A k \in ExistingMemes :
        LET b == meme_cooldown[k] IN
        b.present =>
            /\ b.rate >= 0
            /\ 0 <= Count(b, b.rate) /\ Count(b, b.rate) <= b.rate
            /\ Count(b, b.rate) = InWindow(granted[k], b)

\* A bucket has let a call through at the start of its window and another
\* at the very end of it, windowStart + period, which is outside the
\* window and took no permit: the count is 1 with two calls let through.
C20_Witness ==
    \E k \in ExistingMemes :
        LET b == meme_cooldown[k] IN
        /\ b.present /\ Count(b, b.rate) = 1
        /\ Len(granted[k]) = 2
        /\ granted[k][1] = b.window /\ granted[k][2] = b.window + b.per

(***************************************************************************)
(* C21. Privileged callers are never rate-limited: whatever the buckets    *)
(* hold, the handler of a moderator's invocation of meme or neural_net     *)
(* never ends with the "on cooldown" error (it ends early only for an      *)
(* unknown meme or a missing token); a moderator's meme invocation that    *)
(* has got its bucket goes on to show the meme.                            *)
(***************************************************************************)
C21_PrivilegedNeverLimited ==
    [][\A t \in Invokers :
          hpc[t] \in {"pending", "got_bucket"} /\ hpc'[t] # hpc[t] /\ harg[t].mod =>
              /\ hpc'[t] = "idle" => out'.mod /\ out'.outcome # "on cooldown"
              /\ hpc[t] = "got_bucket" =>
                     /\ out'.mod /\ out'.outcome = "shown"
                     /\ hpc'[t] = "awaiting"]_vars

\* A moderator has invoked meme while the meme's permit was taken and its
\* window running: the limiter reported the time to wait, and the meme was
\* shown all the same.
C21_Witness ==
    /\ out.cmd = "meme" /\ out.mod
    /\ out.bucket = "kept" /\ out.limiter = "limited" /\ out.outcome = "shown"
    /\ meme_cooldown[out.key].present /\ meme_cooldown[out.key].tokens = 0
    /\ now < meme_cooldown[out.key].window + MemePer

(***************************************************************************)
(* C22. Eviction is unobservable: the meme mapping, which removes the      *)
(* buckets not used for more than their period at every get_bucket, gives  *)
(* every call the verdict that a mapping which got the same calls and      *)
(* never removed a bucket gives it, and every bucket it still holds is the *)
(* bucket of that mapping.                                                 *)
(***************************************************************************)
C22_EvictionUnobservable ==
    /\ [](\A k \in MemeNames : meme_cooldown[k].present => unswept[k] = meme_cooldown[k])
    /\ [][\A k \in ExistingMemes :
             Invoked /\ out'.cmd = "meme" /\ out'.key = k =>
                 out'.limiter =
                     Verdict(UpdateRateLimit(Unswept(unswept, k, MemeRate, MemePer)[k],
                                             now).retry)]_vars

\* A call on one meme has removed the idle bucket of another, which the
\* mapping that never removes a bucket still holds with its permit taken.
C22_Witness ==
    \E k \in ExistingMemes :
        /\ out.cmd = "meme" /\ out.key # k /\ out.limiter = "passed"
        /\ ~meme_cooldown[k].present
        /\ unswept[k].present /\ unswept[k].tokens = 0
        /\ now > unswept[k].last + MemePer

(***************************************************************************)
(* C23. A meme invocation naming a meme that does not exist is rejected    *)
(* before any cooldown bucket is consulted: it is refused as "no such      *)
(* meme" without a verdict of the limiter, leaves both mappings as they    *)
(* are (no bucket created, removed or updated, no permit taken), so the    *)
(* times at which any meme is let through are what they were; and no       *)
(* bucket ever exists for such a name.                                     *)
(***************************************************************************)
C23_UnknownMemeLeavesCooldowns ==
    /\ [](\A k \in MemeNames \ ExistingMemes : ~meme_cooldown[k].present)
    /\ [][Invoked /\ out'.cmd = "meme" /\ out'.key \notin ExistingMemes =>
             /\ out'.outcome = "no such meme" /\ out'.limiter = "unchecked"
             /\ meme_cooldown' = meme_cooldown /\ res_cooldown' = res_cooldown
             /\ \A k \in ExistingMemes :
                    PassTimes(meme_cooldown', k) = PassTimes(meme_cooldown, k)]_vars

\* An unknown meme has been asked for while an existing meme has its permit
\* taken and its window running, and another has an idle bucket that the
\* next get_bucket will remove.
C23_Witness ==
    /\ out.cmd = "meme" /\ out.key \notin ExistingMemes /\ out.outcome = "no such meme"
    /\ \E k \in ExistingMemes :
           /\ meme_cooldown[k].present /\ meme_cooldown[k].tokens = 0
           /\ now < meme_cooldown[k].window + MemePer
    /\ \E k \in ExistingMemes :
           meme_cooldown[k].present /\ now > meme_cooldown[k].last + MemePer

(***************************************************************************)
(* C24. ios_autocomplete is repeatable: while the get_ios_cfw entry is     *)
(* fresh, two calls of ios_autocomplete with the same typed value return   *)
(* the same list in the same order. Stated for a call that follows         *)
(* another with no other consumer call in between: it hits the entry the   *)
(* call before it used and has the same typed value, so it returns what    *)
(* that call returned.                                                     *)
(* ios_autocomplete reverses the "ios" list of the cached document in      *)
(* place, so every call finds the list in the opposite order to the call   *)
(* before it.                                                              *)
(***************************************************************************)
C24_IosAutocompleteRepeatable ==
    [][/\ now' = now
       /\ reply.who = "ios_autocomplete" /\ reply'.who = "ios_autocomplete"
       /\ reply'.typed = reply.typed
       /\ CacheHit(cache, "get_ios_cfw")
       => reply'.result = reply.result]_vars

(***************************************************************************)
(* C25. A neural_net permit is consumed at the cooldown check and never    *)
(* returned: after an invocation by someone who is no moderator has passed *)
(* the check, every other such invocation in the guild during the          *)
(* following 15 seconds is denied, however the first one goes on (nothing  *)
(* after the check touches the bucket).                                    *)
(* An invocation at exactly windowStart + 15 passes the check without      *)
(* taking a permit (update_rate_limit returns 0.0), so invocations in the  *)
(* 15 seconds after it pass as well.                                       *)
(***************************************************************************)
C25_PermitNotReturned ==
    [][/\ Invoked /\ out'.cmd = "neural_net" /\ ~out'.mod
       /\ out'.limiter # "unchecked"
       /\ permitAt[out'.key] # Never
       => out'.limiter = "limited"]_vars

=============================================================================
